---- MODULE Spec2Model ----
(***************************************************************************)
(* A model of terra_sdk/core/tx.py: the transaction data objects (Tx,      *)
(* TxBody, AuthInfo, SignerInfo, ModeInfo, CompactBitArray), their         *)
(* document codec (to_data / from_data), the empty-signature-slot          *)
(* operation Tx.append_empty_signatures, and the execution-log parser      *)
(* (parse_tx_logs, TxLog, parse_events_by_type, TxInfo.to_data).           *)
(*                                                                         *)
(* Python values are tagged records: every value has a field t naming its  *)
(* class.  A raised exception is the value Raise(exc); an operator that    *)
(* models a Python function returns it in place of the result, and every   *)
(* caller passes it on, as an uncaught exception unwinds the stack.        *)
(***************************************************************************)
EXTENDS Integers, Sequences, FiniteSets, TLC

VARIABLES
    body,          \* Tx.body
    signer_infos,  \* Tx.auth_info.signer_infos
    signatures,    \* Tx.signatures
    call           \* the last call made: its name, its arguments, its result

vars == <<body, signer_infos, signatures, call>>

----------------------------------------------------------------------------
(* Bounds of the model.                                                    *)

MaxSigners == 2      \* length of the list given to append_empty_signatures
MaxTxSigners == 3    \* length Tx.auth_info.signer_infos may grow to
MaxBits == 17        \* argument of CompactBitArray.from_bits
MaxLogs == 3         \* raw log records given to parse_tx_logs
MaxEvents == 2       \* events of one TxLog
MaxAttrs == 2        \* attributes of one event

----------------------------------------------------------------------------
(* Python values.                                                          *)

None == [t |-> "None"]
PyInt(i) == [t |-> "int", i |-> i]
PyStr(s) == [t |-> "str", s |-> s]
PyList(items) == [t |-> "list", items |-> items]
PyDict(kv) == [t |-> "dict", kv |-> kv]
Raise(exc) == [t |-> "raise", exc |-> exc]

IsRaise(v) == v.t = "raise"

\* bool(v): None, 0, '', [] and {} are false; an attrs object is always true.
Truthy(v) ==
    CASE v.t = "None" -> FALSE
      [] v.t = "int"  -> v.i # 0
      [] v.t = "str"  -> v.s # ""
      [] v.t = "list" -> v.items # <<>>
      [] v.t = "dict" -> DOMAIN v.kv # {}
      [] OTHER        -> TRUE

\* d[k]: KeyError when the key is missing, TypeError when d is no mapping.
Getitem(d, k) ==
    IF d.t # "dict" THEN Raise("TypeError")
    ELSE IF k \in DOMAIN d.kv THEN d.kv[k] ELSE Raise("KeyError")

\* d.get(k): None when the key is missing.
Get(d, k) == IF k \in DOMAIN d.kv THEN d.kv[k] ELSE None

\* del d[k]
Del(kv, k) == [x \in DOMAIN kv \ {k} |-> kv[x]]

\* The exception a list comprehension ends with: that of its first element
\* to raise; None when no element raises.
FirstRaise(items) ==
    IF \E i \in 1..Len(items) : IsRaise(items[i])
    THEN items[CHOOSE i \in 1..Len(items) :
                   /\ IsRaise(items[i])
                   /\ \A j \in 1..(i - 1) : ~IsRaise(items[j])]
    ELSE None

SeqsUpTo(S, n) == UNION {[1..k -> S] : k \in 0..n}

----------------------------------------------------------------------------
(* The data objects (attrs classes).                                       *)

\* Members of the enumeration SignMode.
SignMode(name) == [t |-> "SignMode", name |-> name]
SIGN_MODE_DIRECT == SignMode("SIGN_MODE_DIRECT")
SIGN_MODE_LEGACY_AMINO_JSON == SignMode("SIGN_MODE_LEGACY_AMINO_JSON")

SimplePublicKey(key) == [t |-> "SimplePublicKey", key |-> key]
LegacyAminoPubKey(keys) == [t |-> "LegacyAminoPubKey", public_keys |-> keys]
Msg(name) == [t |-> "Msg", name |-> name]
Fee(amount) == [t |-> "Fee", amount |-> amount]

SignerData(sequence, public_key) ==
    [t |-> "SignerData", sequence |-> sequence, public_key |-> public_key]

CompactBitArray(extra_bits_stored, elems) ==
    [t |-> "CompactBitArray", extra_bits_stored |-> extra_bits_stored, elems |-> elems]

ModeInfoSingle(mode) == [t |-> "ModeInfoSingle", mode |-> mode]

ModeInfoMulti(bitarray, mode_infos) ==
    [t |-> "ModeInfoMulti", bitarray |-> bitarray, mode_infos |-> mode_infos]

ModeInfo(single_mode, multi_mode) ==
    [t |-> "ModeInfo", single_mode |-> single_mode, multi_mode |-> multi_mode]

SignerInfo(public_key, sequence, mode_info) ==
    [t |-> "SignerInfo", public_key |-> public_key, sequence |-> sequence,
     mode_info |-> mode_info]

AuthInfo(infos, fee) == [t |-> "AuthInfo", signer_infos |-> infos, fee |-> fee]

TxBody(messages, memo, timeout_height) ==
    [t |-> "TxBody", messages |-> messages, memo |-> memo,
     timeout_height |-> timeout_height]

Tx(b, auth_info, sigs) ==
    [t |-> "Tx", body |-> b, auth_info |-> auth_info, signatures |-> sigs]

----------------------------------------------------------------------------
(* CompactBitArray.from_bits and Tx.append_empty_signatures.               *)

\* The classmethod's body is a single raise.
CompactBitArray_from_bits(len) == Raise("NotImplementedError")

\* The SignerInfo built for one signer (the if/else of the loop body).  In
\* the multisig branch the arguments are evaluated first, so from_bits
\* raises; ModeInfoMulti is then called with one argument of its two, and
\* its result is passed as ModeInfo's first positional attribute.
NewSignerInfo(signer) ==
    IF signer.public_key # None
    THEN IF signer.public_key.t = "LegacyAminoPubKey"
         THEN LET bits  == CompactBitArray_from_bits(Len(signer.public_key.public_keys))
                  multi == IF IsRaise(bits) THEN bits ELSE Raise("TypeError")
              IN  IF IsRaise(multi) THEN multi
                  ELSE SignerInfo(signer.public_key, signer.sequence,
                                  ModeInfo(multi, None))
         ELSE SignerInfo(signer.public_key, signer.sequence,
                         ModeInfo(ModeInfoSingle(SIGN_MODE_DIRECT), None))
    ELSE SignerInfo(SimplePublicKey(""), signer.sequence,
                    ModeInfo(ModeInfoSingle(SIGN_MODE_DIRECT), None))

\* A slip of the loop body: the placeholder signature is appended before the
\* signer info is built.
AppendStepSignatureFirst(infos, sigs, signer) ==
    LET info == NewSignerInfo(signer)
    IN  IF IsRaise(info)
        THEN [signer_infos |-> infos, signatures |-> Append(sigs, " "), raised |-> info]
        ELSE [signer_infos |-> Append(infos, info), signatures |-> Append(sigs, " "),
              raised |-> None]

\* One iteration of the loop: build the signer info, then append it and the
\* placeholder signature ' '.
AppendStep(infos, sigs, signer) ==
    LET info == NewSignerInfo(signer)
    IN  IF IsRaise(info)
        THEN [signer_infos |-> infos, signatures |-> sigs, raised |-> info]
        ELSE [signer_infos |-> Append(infos, info), signatures |-> Append(sigs, " "),
              raised |-> None]

RECURSIVE AppendLoop(_, _, _, _)
\* for signer in signers: ...   (from the i-th signer on)
AppendLoop(infos, sigs, signers, i) ==
    IF i > Len(signers)
    THEN [signer_infos |-> infos, signatures |-> sigs, raised |-> None]
    ELSE LET r == AppendStep(infos, sigs, signers[i])
         IN  IF r.raised # None THEN r
             ELSE AppendLoop(r.signer_infos, r.signatures, signers, i + 1)

SequenceValues == {0, 1}

\* A legacy-amino multisig key of two constituent keys.
MultisigKey == LegacyAminoPubKey(<<SimplePublicKey("K1"), SimplePublicKey("K2")>>)

PublicKeys == {None, SimplePublicKey("A"), MultisigKey}

SignerDatas == {SignerData(s, pk) : s \in SequenceValues, pk \in PublicKeys}

SignerLists == SeqsUpTo(SignerDatas, MaxSigners)

\* Tx.append_empty_signatures(signers)
append_empty_signatures ==
    \E signers \in SignerLists :
        /\ Len(signer_infos) + Len(signers) <= MaxTxSigners
        /\ LET r == AppendLoop(signer_infos, signatures, signers, 1)
           IN  /\ signer_infos' = r.signer_infos
               /\ signatures' = r.signatures
               /\ call' = [op |-> "return", f |-> "append_empty_signatures",
                           signers |-> signers,
                           old_signer_infos |-> signer_infos,
                           old_signatures |-> signatures,
                           raised |-> r.raised]
        /\ UNCHANGED body

----------------------------------------------------------------------------
(* The execution-log model: parse_events_by_type, TxLog, parse_tx_logs.    *)
(* An event is a raw dict {"type", "attributes"} and an attribute a raw    *)
(* dict {"key", "value"}; both are records here.  The index is a function  *)
(* from event types to functions from attribute keys to value sequences.   *)

\* A slip of the append: a value already in the list is not added again.
AddValueOnce(values, value) ==
    IF \E n \in 1..Len(values) : values[n] = value THEN values
    ELSE Append(values, value)

\* events[ev["type"]][att["key"]].append(att.get("value"))
AddValue(values, value) == Append(values, value)

RECURSIVE AttributeLoop(_, _, _, _)
\* for att in ev["attributes"]: ...   (from the j-th attribute on)
AttributeLoop(events, ev, atts, j) ==
    IF j > Len(atts) THEN events
    ELSE LET att == atts[j]
             e1  == IF ev.type \notin DOMAIN events
                    THEN events @@ (ev.type :> <<>>)
                    ELSE events
             e2  == IF att.key \notin DOMAIN e1[ev.type]
                    THEN [e1 EXCEPT ![ev.type] = @ @@ (att.key :> <<>>)]
                    ELSE e1
             e3  == [e2 EXCEPT ![ev.type][att.key] = AddValue(@, att.value)]
         IN  AttributeLoop(e3, ev, atts, j + 1)

RECURSIVE EventLoop(_, _, _)
\* for ev in event_data: ...   (from the i-th event on)
EventLoop(events, event_data, i) ==
    IF i > Len(event_data) THEN events
    ELSE EventLoop(AttributeLoop(events, event_data[i], event_data[i].attributes, 1),
                   event_data, i + 1)

\* parse_events_by_type(event_data); iterating over None is a TypeError.
parse_events_by_type(event_data) ==
    IF event_data.t # "list" THEN Raise("TypeError")
    ELSE PyDict(EventLoop(<<>>, event_data.items, 1))

\* TxLog(msg_index, log, events): __attrs_post_init__ derives events_by_type.
TxLog(msg_index, log, events) ==
    LET by_type == parse_events_by_type(events)
    IN  IF IsRaise(by_type) THEN by_type
        ELSE [t |-> "TxLog", msg_index |-> msg_index, log |-> log,
              events |-> events, events_by_type |-> by_type.kv]

\* A slip of the enumeration: positions counted from 1.
MsgIndexFromOne(i) == i

\* enumerate(logs) counts from 0; the i-th element of a sequence here is the
\* (i - 1)-th of the Python list.
MsgIndex(i) == i - 1

\* parse_tx_logs(logs)
parse_tx_logs(logs) ==
    IF Truthy(logs)
    THEN LET items == [i \in 1..Len(logs.items) |->
                          TxLog(MsgIndex(i), Get(logs.items[i], "log"),
                                Get(logs.items[i], "events"))]
         IN  IF FirstRaise(items) # None THEN FirstRaise(items) ELSE PyList(items)
    ELSE None

----------------------------------------------------------------------------
(* The document codec: to_data and from_data.                              *)

\* The documents of the collaborators (Msg, PublicKey, Fee), which the spec
\* treats as opaque values with their own strict-inverse codec.
Opaque_to_data(x) == [t |-> "data", of |-> x]
Opaque_from_data(d) == IF d.t = "data" THEN d.of ELSE Raise("TypeError")

\* ModeInfoSingle.to_data builds a dict and returns nothing.
ModeInfoSingle_to_data(self) == None

ModeInfoSingle_from_data(data) ==
    LET v == Getitem(data, "value") IN
    IF IsRaise(v) THEN v ELSE
    LET mode == Getitem(v, "mode") IN
    IF IsRaise(mode) THEN mode ELSE ModeInfoSingle(mode)

ModeInfoMulti_from_data(data) ==
    LET v == Getitem(data, "value") IN
    IF IsRaise(v) THEN v ELSE
    LET bitarray == Getitem(v, "bitarray") IN
    IF IsRaise(bitarray) THEN bitarray ELSE
    LET mode_infos == Getitem(v, "mode_infos") IN
    IF IsRaise(mode_infos) THEN mode_infos ELSE ModeInfoMulti(bitarray, mode_infos)

\* ModeInfo.to_data: the multi branch calls self.multi_mode.todata(), an
\* attribute no class defines.
ModeInfo_to_data(self) ==
    LET single == IF Truthy(self.single_mode)
                  THEN ModeInfoSingle_to_data(self.single_mode) ELSE None
        multi  == IF Truthy(self.multi_mode) THEN Raise("AttributeError") ELSE None
    IN  IF IsRaise(single) THEN single
        ELSE IF IsRaise(multi) THEN multi
        ELSE PyDict([single |-> single, multi |-> multi])

ModeInfo_from_data(data) ==
    LET v == Getitem(data, "value") IN
    IF IsRaise(v) THEN v ELSE
    LET s == Getitem(v, "single") IN
    IF IsRaise(s) THEN s ELSE
    LET single == IF Truthy(s) THEN ModeInfoSingle_from_data(s) ELSE None IN
    IF IsRaise(single) THEN single ELSE
    LET m == Getitem(v, "multi") IN
    IF IsRaise(m) THEN m ELSE
    LET multi == IF Truthy(m) THEN ModeInfoMulti_from_data(m) ELSE None IN
    IF IsRaise(multi) THEN multi ELSE ModeInfo(single, multi)

SignModeNames ==
    {"SIGN_MODE_UNSPECIFIED", "SIGN_MODE_DIRECT", "SIGN_MODE_TEXTUAL",
     "SIGN_MODE_LEGACY_AMINO_JSON"}

\* ModeInfoSingle.from_proto(proto): SignMode.from_string looks the name up.
ModeInfoSingle_from_proto(proto) ==
    LET name == Getitem(proto, "mode") IN
    IF IsRaise(name) THEN name ELSE
    IF name.t = "str" /\ name.s \in SignModeNames
    THEN ModeInfoSingle(SignMode(name.s))
    ELSE Raise("ValueError")

\* ModeInfo.from_proto(proto); multi is what ModeInfoMulti.from_proto returns
\* for proto["multi"], which rests on the protobuf library.
ModeInfo_from_proto(proto, multi) ==
    LET s == Getitem(proto, "single") IN
    IF IsRaise(s) THEN s ELSE
    IF Truthy(s)
    THEN LET single == ModeInfoSingle_from_proto(s) IN
         IF IsRaise(single) THEN single ELSE ModeInfo(single, None)
    ELSE LET m == Getitem(proto, "multi") IN
         IF IsRaise(m) THEN m ELSE
         IF IsRaise(multi) THEN multi ELSE ModeInfo(None, multi)

SignerInfo_to_data(self) ==
    LET mode_info == ModeInfo_to_data(self.mode_info)
    IN  IF IsRaise(mode_info) THEN mode_info
        ELSE PyDict([public_key |-> Opaque_to_data(self.public_key),
                     sequence |-> PyInt(self.sequence),
                     mode_info |-> mode_info])

SignerInfo_from_data(data) ==
    LET v == Getitem(data, "value") IN
    IF IsRaise(v) THEN v ELSE
    LET pk == Getitem(v, "public_key") IN
    IF IsRaise(pk) THEN pk ELSE
    LET public_key == Opaque_from_data(pk) IN
    IF IsRaise(public_key) THEN public_key ELSE
    LET sequence == Getitem(v, "sequence") IN
    IF IsRaise(sequence) THEN sequence ELSE
    LET mi == Getitem(v, "mode_info") IN
    IF IsRaise(mi) THEN mi ELSE
    LET mode_info == ModeInfo_from_data(mi) IN
    IF IsRaise(mode_info) THEN mode_info ELSE
    IF sequence.t # "int" THEN Raise("TypeError")
    ELSE SignerInfo(public_key, sequence.i, mode_info)

AuthInfo_to_data(self) ==
    LET infos == [i \in 1..Len(self.signer_infos) |->
                     SignerInfo_to_data(self.signer_infos[i])]
    IN  IF FirstRaise(infos) # None THEN FirstRaise(infos)
        ELSE PyDict([signer_infos |-> PyList(infos), fee |-> Opaque_to_data(self.fee)])

AuthInfo_from_data(data) ==
    LET v == Getitem(data, "value") IN
    IF IsRaise(v) THEN v ELSE
    LET l == Getitem(v, "signer_infos") IN
    IF IsRaise(l) THEN l ELSE
    IF l.t # "list" THEN Raise("TypeError") ELSE
    LET infos == [i \in 1..Len(l.items) |-> SignerInfo_from_data(l.items[i])] IN
    IF FirstRaise(infos) # None THEN FirstRaise(infos) ELSE
    LET f == Getitem(v, "fee") IN
    IF IsRaise(f) THEN f ELSE
    LET fee == Opaque_from_data(f) IN
    IF IsRaise(fee) THEN fee ELSE AuthInfo(infos, fee)

TxBody_to_data(self) ==
    PyDict([messages |-> PyList([i \in 1..Len(self.messages) |->
                                    Opaque_to_data(self.messages[i])]),
            memo |-> IF Truthy(self.memo) THEN self.memo ELSE PyStr(""),
            timeout_height |-> IF Truthy(self.timeout_height)
                               THEN self.timeout_height ELSE PyInt(0)])

TxBody_from_data(data) ==
    LET v == Getitem(data, "value") IN
    IF IsRaise(v) THEN v ELSE
    LET l == Getitem(v, "messages") IN
    IF IsRaise(l) THEN l ELSE
    IF l.t # "list" THEN Raise("TypeError") ELSE
    LET messages == [i \in 1..Len(l.items) |-> Opaque_from_data(l.items[i])] IN
    IF FirstRaise(messages) # None THEN FirstRaise(messages) ELSE
    LET memo == Getitem(v, "memo") IN
    IF IsRaise(memo) THEN memo ELSE
    LET timeout_height == Getitem(v, "timeout_height") IN
    IF IsRaise(timeout_height) THEN timeout_height
    ELSE TxBody(messages, memo, timeout_height)

\* Tx.signatures is a sequence of strings here and a list of str in a document.
Tx_to_data(self) ==
    LET auth_info == AuthInfo_to_data(self.auth_info)
    IN  IF IsRaise(auth_info) THEN auth_info
        ELSE PyDict([body |-> TxBody_to_data(self.body),
                     auth_info |-> auth_info,
                     signatures |-> PyList([i \in 1..Len(self.signatures) |->
                                               PyStr(self.signatures[i])])])

Tx_from_data(data) ==
    LET v == Getitem(data, "value") IN
    IF IsRaise(v) THEN v ELSE
    LET b == Getitem(v, "body") IN
    IF IsRaise(b) THEN b ELSE
    LET tx_body == TxBody_from_data(b) IN
    IF IsRaise(tx_body) THEN tx_body ELSE
    LET a == Getitem(v, "auth_info") IN
    IF IsRaise(a) THEN a ELSE
    LET auth_info == AuthInfo_from_data(a) IN
    IF IsRaise(auth_info) THEN auth_info ELSE
    LET sigs == Getitem(v, "signatures") IN
    IF IsRaise(sigs) THEN sigs
    ELSE Tx(tx_body, auth_info, [i \in 1..Len(sigs.items) |-> sigs.items[i].s])

----------------------------------------------------------------------------
(* TxInfo.                                                                 *)

TxInfo(height, txhash, rawlog, logs, gas_wanted, gas_used, tx, timestamp, code, codespace) ==
    [t |-> "TxInfo", height |-> height, txhash |-> txhash, rawlog |-> rawlog,
     logs |-> logs, gas_wanted |-> gas_wanted, gas_used |-> gas_used, tx |-> tx,
     timestamp |-> timestamp, code |-> code, codespace |-> codespace]

\* TxInfo.to_data: the dict is built with every key, then "logs", "code" and
\* "codespace" are deleted when their attribute is false.  log.to_data() is
\* the collaborator's (JSONSerializable).
TxInfo_to_data(self) ==
    LET logs == IF Truthy(self.logs)
                THEN PyList([i \in 1..Len(self.logs.items) |->
                                Opaque_to_data(self.logs.items[i])])
                ELSE None
        tx   == Tx_to_data(self.tx)
    IN  IF IsRaise(tx) THEN tx ELSE
        LET data == [height |-> PyStr(ToString(self.height)),
                     txhash |-> PyStr(self.txhash),
                     raw_log |-> PyStr(self.rawlog),
                     logs |-> logs,
                     gas_wanted |-> PyStr(ToString(self.gas_wanted)),
                     gas_used |-> PyStr(ToString(self.gas_used)),
                     timestamp |-> PyStr(self.timestamp),
                     tx |-> tx,
                     code |-> self.code,
                     codespace |-> self.codespace]
            d1   == IF ~Truthy(self.logs) THEN Del(data, "logs") ELSE data
            d2   == IF ~Truthy(self.code) THEN Del(d1, "code") ELSE d1
            d3   == IF ~Truthy(self.codespace) THEN Del(d2, "codespace") ELSE d2
        IN  PyDict(d3)

----------------------------------------------------------------------------
(* The transaction under construction: specification Spec.                 *)

TheFee == Fee("1500uluna")

Bodies ==
    {TxBody(<<>>, PyStr(""), None),
     TxBody(<<Msg("MsgSend")>>, PyStr("memo"), PyInt(7))}

\* A signer info and its signature as a caller that signs a multisig
\* transaction passes them to the constructor.
MultisigSignerInfo ==
    SignerInfo(MultisigKey, 0,
               ModeInfo(None, ModeInfoMulti(CompactBitArray(2, <<0>>), <<>>)))

CurrentTx == Tx(body, AuthInfo(signer_infos, TheFee), signatures)

\* Tx(body, auth_info, signatures)
Init ==
    /\ body \in Bodies
    /\ \/ signer_infos = <<>> /\ signatures = <<>>
       \/ signer_infos = <<MultisigSignerInfo>> /\ signatures = <<"c2ln">>
    /\ call = [op |-> "new", f |-> "Tx"]

TxInfoLogs == {None, PyList(<<>>), PyList(<<TxLog(0, PyStr(""), PyList(<<>>))>>)}
TxInfoCodes == {None, PyInt(0), PyInt(5)}
TxInfoCodespaces == {None, PyStr(""), PyStr("sdk")}

\* TxInfo(...).to_data() for a receipt of the transaction as it is
call_TxInfo_to_data ==
    /\ \E logs \in TxInfoLogs, code \in TxInfoCodes, codespace \in TxInfoCodespaces :
          LET self == TxInfo(12, "0A1B", "[]", logs, 200000, 80000, CurrentTx,
                             "2021-01-01T00:00:00Z", code, codespace)
          IN  call' = [op |-> "return", f |-> "TxInfo.to_data", self |-> self,
                       ret |-> TxInfo_to_data(self)]
    /\ UNCHANGED <<body, signer_infos, signatures>>

Next == append_empty_signatures \/ call_TxInfo_to_data

Spec == Init /\ [][Next]_vars

----------------------------------------------------------------------------
(* The pure functions.  Their specifications draw one call (the function   *)
(* and its arguments) in the initial state, and the action of the function *)
(* applies it.  The transaction plays no part and stays empty.             *)

Pending(f, arg) == [op |-> "call", f |-> f, arg |-> arg]
Return(f, arg, ret) == [op |-> "return", f |-> f, arg |-> arg, ret |-> ret]

Returned(f) == call.op = "return" /\ call.f = f

NoTx ==
    /\ body = TxBody(<<>>, PyStr(""), None)
    /\ signer_infos = <<>>
    /\ signatures = <<>>

\* The function f is the one to call.
Called(f) == call.op = "call" /\ call.f = f

\* The call returns ret (or raises it); nothing else changes.
Reply(ret) ==
    /\ call' = Return(call.f, call.arg, ret)
    /\ UNCHANGED <<body, signer_infos, signatures>>

----------------------------------------------------------------------------
(* Specification SpecCodec: from_bits, the ModeInfo constructors, and the  *)
(* document round trip from_data(to_data(x)) of each entity.               *)

ModeInfoSingles ==
    {ModeInfoSingle(SIGN_MODE_DIRECT), ModeInfoSingle(SIGN_MODE_LEGACY_AMINO_JSON)}

ModeInfoMultis ==
    {ModeInfoMulti(CompactBitArray(2, <<0>>), <<>>),
     ModeInfoMulti(CompactBitArray(1, <<128, 128>>),
                   <<ModeInfo(ModeInfoSingle(SIGN_MODE_DIRECT), None)>>)}

\* The entities the round-trip law is about: exactly one mode populated.
WellFormedModeInfos ==
    {ModeInfo(single, None) : single \in ModeInfoSingles}
        \cup {ModeInfo(None, multi) : multi \in ModeInfoMultis}

WellFormedSignerInfos ==
    {SignerInfo(pk, s, mi) : pk \in PublicKeys \ {None}, s \in SequenceValues,
                             mi \in WellFormedModeInfos}

WellFormedAuthInfos ==
    {AuthInfo(infos, TheFee) : infos \in SeqsUpTo(WellFormedSignerInfos, 1)}

WellFormedTxBodies ==
    {TxBody(messages, memo, timeout_height) :
        messages \in {<<>>, <<Msg("MsgSend")>>, <<Msg("MsgSend"), Msg("MsgVote")>>},
        memo \in {PyStr(""), PyStr("memo")},
        timeout_height \in {None, PyInt(0), PyInt(7)}}

WellFormedTxs ==
    {Tx(b, AuthInfo(infos, TheFee), [i \in 1..Len(infos) |-> "c2ln"]) :
        b \in Bodies,
        infos \in SeqsUpTo({NewSignerInfo(SignerData(0, SimplePublicKey("A"))),
                            MultisigSignerInfo}, 1)}

SingleDocs ==
    {None,
     PyDict([value |-> PyDict([mode |-> SIGN_MODE_DIRECT])]),
     PyDict([mode |-> SIGN_MODE_DIRECT])}

MultiDocs ==
    {None,
     PyDict([value |-> PyDict([bitarray |-> CompactBitArray(2, <<0>>),
                               mode_infos |-> PyList(<<>>)])])}

\* Documents given to ModeInfo.from_data: with and without the "value"
\* wrapper, and what ModeInfo.to_data returns.
ModeInfoDocs ==
    {PyDict([value |-> PyDict([single |-> s, multi |-> m])]) :
        s \in SingleDocs, m \in MultiDocs}
        \cup {PyDict([single |-> None, multi |-> None]), None}

ModeInfoProtos ==
    {PyDict([single |-> s, multi |-> m]) :
        s \in {None, PyDict([mode |-> PyStr("SIGN_MODE_DIRECT")]),
               PyDict([mode |-> PyStr("SIGN_MODE_TEXTUAL")]),
               PyDict([mode |-> PyStr("direct")])},
        m \in {None, PyDict([bitarray |-> CompactBitArray(2, <<0>>),
                             mode_infos |-> PyList(<<>>)])}}

\* What ModeInfoMulti.from_proto may return, as the library decides.
MultiFromProto == {Raise("AttributeError"), ModeInfoMulti(CompactBitArray(2, <<0>>), <<>>)}

InitCodec ==
    /\ NoTx
    /\ call \in
         {Pending("CompactBitArray.from_bits", n) : n \in 1..MaxBits}
           \cup {Pending("ModeInfo", <<single, multi>>) :
                    single \in {None} \cup ModeInfoSingles,
                    multi \in {None} \cup ModeInfoMultis}
           \cup {Pending("ModeInfo.from_data", d) : d \in ModeInfoDocs}
           \cup {Pending("ModeInfo.from_proto", <<p, m>>) :
                    p \in ModeInfoProtos, m \in MultiFromProto}
           \cup {Pending("ModeInfoSingle.round_trip", x) : x \in ModeInfoSingles}
           \cup {Pending("ModeInfo.round_trip", x) : x \in WellFormedModeInfos}
           \cup {Pending("SignerInfo.round_trip", x) : x \in WellFormedSignerInfos}
           \cup {Pending("AuthInfo.round_trip", x) : x \in WellFormedAuthInfos}
           \cup {Pending("TxBody.round_trip", x) : x \in WellFormedTxBodies}
           \cup {Pending("Tx.round_trip", x) : x \in WellFormedTxs}

\* from_data(to_data(x)): an exception of to_data ends the call.
RoundTrip(data, from_data_of_data) ==
    IF IsRaise(data) THEN data ELSE from_data_of_data

call_from_bits ==
    /\ Called("CompactBitArray.from_bits")
    /\ Reply(CompactBitArray_from_bits(call.arg))

call_ModeInfo ==
    /\ Called("ModeInfo")
    /\ Reply(ModeInfo(call.arg[1], call.arg[2]))

call_ModeInfo_from_data ==
    /\ Called("ModeInfo.from_data")
    /\ Reply(ModeInfo_from_data(call.arg))

call_ModeInfo_from_proto ==
    /\ Called("ModeInfo.from_proto")
    /\ Reply(ModeInfo_from_proto(call.arg[1], call.arg[2]))

round_trip_ModeInfoSingle ==
    /\ Called("ModeInfoSingle.round_trip")
    /\ Reply(RoundTrip(ModeInfoSingle_to_data(call.arg),
                    ModeInfoSingle_from_data(ModeInfoSingle_to_data(call.arg))))

round_trip_ModeInfo ==
    /\ Called("ModeInfo.round_trip")
    /\ Reply(RoundTrip(ModeInfo_to_data(call.arg),
                    ModeInfo_from_data(ModeInfo_to_data(call.arg))))

round_trip_SignerInfo ==
    /\ Called("SignerInfo.round_trip")
    /\ Reply(RoundTrip(SignerInfo_to_data(call.arg),
                    SignerInfo_from_data(SignerInfo_to_data(call.arg))))

round_trip_AuthInfo ==
    /\ Called("AuthInfo.round_trip")
    /\ Reply(RoundTrip(AuthInfo_to_data(call.arg),
                    AuthInfo_from_data(AuthInfo_to_data(call.arg))))

round_trip_TxBody ==
    /\ Called("TxBody.round_trip")
    /\ Reply(RoundTrip(TxBody_to_data(call.arg),
                    TxBody_from_data(TxBody_to_data(call.arg))))

round_trip_Tx ==
    /\ Called("Tx.round_trip")
    /\ Reply(RoundTrip(Tx_to_data(call.arg), Tx_from_data(Tx_to_data(call.arg))))

NextCodec ==
    \/ call_from_bits
    \/ call_ModeInfo
    \/ call_ModeInfo_from_data
    \/ call_ModeInfo_from_proto
    \/ round_trip_ModeInfoSingle
    \/ round_trip_ModeInfo
    \/ round_trip_SignerInfo
    \/ round_trip_AuthInfo
    \/ round_trip_TxBody
    \/ round_trip_Tx

SpecCodec == InitCodec /\ [][NextCodec]_vars

----------------------------------------------------------------------------
(* Specification SpecLogs: parse_tx_logs and the TxLog constructor.        *)

EventTypes == {"transfer", "message"}

Attributes ==
    {[key |-> "amount", value |-> "10"], [key |-> "amount", value |-> "20"],
     [key |-> "sender", value |-> "10"]}

\* A "transfer" event has up to MaxAttrs attributes, a "message" event at
\* most one.
Events ==
    {[type |-> "transfer", attributes |-> atts] : atts \in SeqsUpTo(Attributes, MaxAttrs)}
        \cup {[type |-> "message", attributes |-> atts] : atts \in SeqsUpTo(Attributes, 1)}

EventLists == SeqsUpTo(Events, MaxEvents)

\* Raw log records: "log" and "events" are each present or missing.
LogRecords ==
    LET transfer == [type |-> "transfer",
                     attributes |-> <<[key |-> "amount", value |-> "10"]>>]
    IN  {PyDict(kv) : kv \in
            {[log |-> l, events |-> e] :
                l \in {PyStr(""), PyStr("out of gas")},
                e \in {PyList(<<>>), PyList(<<transfer>>)}}
              \cup {[events |-> PyList(<<transfer>>)], [log |-> PyStr("out of gas")]}}

RawLogs == {None} \cup {PyList(l) : l \in SeqsUpTo(LogRecords, MaxLogs)}

InitLogs ==
    /\ NoTx
    /\ call \in
         {Pending("parse_tx_logs", logs) : logs \in RawLogs}
           \cup {Pending("TxLog", PyList(events)) : events \in EventLists}

call_parse_tx_logs ==
    /\ Called("parse_tx_logs")
    /\ Reply(parse_tx_logs(call.arg))

call_TxLog ==
    /\ Called("TxLog")
    /\ Reply(TxLog(0, PyStr(""), call.arg))

NextLogs == call_parse_tx_logs \/ call_TxLog

SpecLogs == InitLogs /\ [][NextLogs]_vars

----------------------------------------------------------------------------
(* Properties.                                                             *)

IsPrefix(old, new) == Len(old) <= Len(new) /\ SubSeq(new, 1, Len(old)) = old

\* C1: Tx.append_empty_signatures with N signer entries (with or without a
\* public key, single or legacy-amino multisig) lengthens signatures and
\* auth_info.signer_infos by exactly N and keeps the earlier entries,
\* unchanged and in order, as a prefix of both.
C1_AppendGrowsByN ==
    Returned("append_empty_signatures") =>
        /\ Len(signer_infos) = Len(call.old_signer_infos) + Len(call.signers)
        /\ Len(signatures) = Len(call.old_signatures) + Len(call.signers)
        /\ IsPrefix(call.old_signer_infos, signer_infos)
        /\ IsPrefix(call.old_signatures, signatures)

\* C2: signatures and auth_info.signer_infos have the same length after any
\* sequence of append_empty_signatures calls, also after a call that stopped
\* with an error: what a call appended is a signer info for each of the
\* first k entries, in their order, and as many placeholder signatures.
C2_SignaturesMatchSignerInfos ==
    /\ Len(signatures) = Len(signer_infos)
    /\ Returned("append_empty_signatures") =>
          LET k == Len(signer_infos) - Len(call.old_signer_infos)
          IN  /\ IsPrefix(call.old_signer_infos, signer_infos)
              /\ IsPrefix(call.old_signatures, signatures)
              /\ k = Len(signatures) - Len(call.old_signatures)
              /\ k <= Len(call.signers)
              /\ \A j \in 1..k :
                    signer_infos[Len(call.old_signer_infos) + j].sequence
                        = call.signers[j].sequence

\* A call that stopped with an error after it had appended an entry.
C2_Witness ==
    /\ Returned("append_empty_signatures")
    /\ call.raised # None
    /\ Len(signer_infos) > Len(call.old_signer_infos)
    /\ Len(call.old_signer_infos) > 0

\* The all-unset bitarray over n bits.
IsAllUnset(bitarray, n) ==
    /\ bitarray.t = "CompactBitArray"
    /\ Len(bitarray.elems) = (n + 7) \div 8
    /\ \A i \in 1..Len(bitarray.elems) : bitarray.elems[i] = 0
    /\ bitarray.extra_bits_stored = (IF n % 8 = 0 THEN 8 ELSE n % 8)

\* C3: for each signer entry, append_empty_signatures appends a SignerInfo
\* with the entry's sequence and a mode_info chosen by the key: no key gives
\* the empty public-key placeholder, Single(DIRECT) and a non-empty
\* placeholder signature; a legacy-amino multisig key of N keys gives Multi
\* with an all-unset bitarray over N bits; any other key gives that key with
\* Single(DIRECT).
C3_SignerInfoPerEntry ==
    Returned("append_empty_signatures") =>
        /\ Len(signer_infos) >= Len(call.old_signer_infos) + Len(call.signers)
        /\ Len(signatures) >= Len(call.old_signatures) + Len(call.signers)
        /\ \A j \in 1..Len(call.signers) :
              LET signer == call.signers[j]
                  info   == signer_infos[Len(call.old_signer_infos) + j]
                  sig    == signatures[Len(call.old_signatures) + j]
              IN  /\ info.sequence = signer.sequence
                  /\ signer.public_key = None =>
                        /\ info.public_key = SimplePublicKey("")
                        /\ info.mode_info = ModeInfo(ModeInfoSingle(SIGN_MODE_DIRECT), None)
                        /\ sig # ""
                  /\ signer.public_key.t = "LegacyAminoPubKey" =>
                        /\ info.public_key = signer.public_key
                        /\ info.mode_info.single_mode = None
                        /\ info.mode_info.multi_mode.t = "ModeInfoMulti"
                        /\ IsAllUnset(info.mode_info.multi_mode.bitarray,
                                      Len(signer.public_key.public_keys))
                  /\ signer.public_key.t = "SimplePublicKey" =>
                        /\ info.public_key = signer.public_key
                        /\ info.mode_info = ModeInfo(ModeInfoSingle(SIGN_MODE_DIRECT), None)

\* C4: parse_tx_logs(None) returns None ("no logs") and parse_tx_logs([])
\* returns an empty sequence, which is not "no logs".
C4_AbsentIsNotEmpty ==
    Returned("parse_tx_logs") =>
        /\ call.arg = None => call.ret = None
        /\ call.arg = PyList(<<>>) => call.ret = PyList(<<>>) /\ call.ret # None

\* The positions <<i, j>> of the attributes with key k in events of type t.
Positions(events, t, k) ==
    UNION {{<<i, j>> : j \in {j \in 1..Len(events[i].attributes) :
                                 events[i].attributes[j].key = k}} :
              i \in {i \in 1..Len(events) : events[i].type = t}}

Before(p, q) == p[1] < q[1] \/ (p[1] = q[1] /\ p[2] < q[2])

\* The values at those positions, in encounter order: the n-th is the value
\* at the position that n - 1 of the positions come before.
ValuesInOrder(events, t, k) ==
    LET P == Positions(events, t, k)
    IN  [n \in 1..Cardinality(P) |->
            LET p == CHOOSE p \in P : Cardinality({q \in P : Before(q, p)}) = n - 1
            IN  events[p[1]].attributes[p[2]].value]

\* events_by_type[t][k], the empty sequence when there is no such entry.
Lookup(by_type, t, k) ==
    IF t \in DOMAIN by_type /\ k \in DOMAIN by_type[t] THEN by_type[t][k] ELSE <<>>

IndexIsExact(log) ==
    LET types == EventTypes \cup DOMAIN log.events_by_type
        keys  == {a.key : a \in Attributes}
                     \cup UNION {DOMAIN log.events_by_type[t] : t \in DOMAIN log.events_by_type}
    IN  \A t \in types, k \in keys :
            Lookup(log.events_by_type, t, k) = ValuesInOrder(log.events.items, t, k)

\* C5: events_by_type[t][k] of a TxLog is exactly the sequence of the values
\* of the attributes with key k in the events of type t, in encounter
\* order, duplicates kept.
C5_EventsByTypeIsExact ==
    /\ Returned("TxLog") /\ ~IsRaise(call.ret) => IndexIsExact(call.ret)
    /\ Returned("parse_tx_logs") /\ call.ret.t = "list" =>
          \A i \in 1..Len(call.ret.items) : IndexIsExact(call.ret.items[i])

\* A TxLog of two events of one type whose index holds a value twice.
C5_Witness ==
    /\ Returned("TxLog")
    /\ ~IsRaise(call.ret)
    /\ Len(call.arg.items) = 2
    /\ call.arg.items[1].type = call.arg.items[2].type
    /\ \E t \in DOMAIN call.ret.events_by_type :
          \E k \in DOMAIN call.ret.events_by_type[t] :
             LET values == call.ret.events_by_type[t][k]
             IN  /\ Len(values) >= 3
                 /\ \E m, n \in 1..Len(values) : m < n /\ values[m] = values[n]
                 /\ \E m, n \in 1..Len(values) : values[m] # values[n]

\* C6: TxInfo.to_data omits "logs" when logs is absent, omits "code" and
\* "codespace" when both are unset, never emits one of them as null, and
\* keeps "code" and "codespace" with their values for a failed transaction
\* (code set, not absent).
C6_TxInfoDocumentOmitsAbsent ==
    Returned("TxInfo.to_data") /\ ~IsRaise(call.ret) =>
        LET self == call.self
            data == call.ret.kv
        IN  /\ self.logs = None => "logs" \notin DOMAIN data
            /\ self.code = None /\ self.codespace = None =>
                  "code" \notin DOMAIN data /\ "codespace" \notin DOMAIN data
            /\ \A key \in {"logs", "code", "codespace"} \cap DOMAIN data :
                  data[key] # None
            /\ self.code # None =>
                  /\ "code" \in DOMAIN data
                  /\ data["code"] = self.code
                  /\ self.codespace # None =>
                        /\ "codespace" \in DOMAIN data
                        /\ data["codespace"] = self.codespace

ExactlyOneMode(mode_info) ==
    (mode_info.single_mode = None) # (mode_info.multi_mode = None)

\* C7: every ModeInfo the program produces (the constructor, from_data,
\* from_proto, a SignerInfo appended by append_empty_signatures) has
\* exactly one of single_mode and multi_mode populated.
C7_ExactlyOneMode ==
    /\ \A f \in {"ModeInfo", "ModeInfo.from_data", "ModeInfo.from_proto"} :
          Returned(f) /\ ~IsRaise(call.ret) => ExactlyOneMode(call.ret)
    /\ \A i \in 1..Len(signer_infos) : ExactlyOneMode(signer_infos[i].mode_info)

RoundTrips ==
    {"Tx.round_trip", "TxBody.round_trip", "AuthInfo.round_trip",
     "SignerInfo.round_trip", "ModeInfo.round_trip", "ModeInfoSingle.round_trip"}

\* C8: for every well-formed Tx, TxBody, AuthInfo, SignerInfo, ModeInfo and
\* ModeInfoSingle x, from_data(to_data(x)) succeeds and equals x.
C8_DocumentRoundTrip ==
    call.op = "return" /\ call.f \in RoundTrips => call.ret = call.arg

\* C9: CompactBitArray.from_bits(N) is the all-unset bitarray of ceil(N/8)
\* zero bytes with extra_bits_stored = N mod 8, or 8 when 8 divides N.
C9_FromBits ==
    Returned("CompactBitArray.from_bits") => IsAllUnset(call.ret, call.arg)

HasEvents(record) == "events" \in DOMAIN record.kv

\* C10: for a non-empty sequence of k raw log records, each with an events
\* sequence, parse_tx_logs returns k TxLog values in the records' order,
\* the i-th (from 0) with msg_index = i and the i-th record's log and events.
C10_OneTxLogPerRecord ==
    (/\ Returned("parse_tx_logs")
     /\ call.arg.t = "list"
     /\ call.arg.items # <<>>
     /\ \A i \in 1..Len(call.arg.items) : HasEvents(call.arg.items[i]))
    => /\ call.ret.t = "list"
       /\ Len(call.ret.items) = Len(call.arg.items)
       /\ \A i \in 1..Len(call.arg.items) :
             LET record == call.arg.items[i].kv
                 log    == call.ret.items[i]
             IN  /\ log.t = "TxLog"
                 /\ log.msg_index + 1 = i
                 /\ log.events = record["events"]
                 /\ "log" \in DOMAIN record => log.log = record["log"]

\* Two different records, each with a log string and events, were parsed.
C10_Witness ==
    /\ Returned("parse_tx_logs")
    /\ call.arg.t = "list"
    /\ Len(call.arg.items) >= 2
    /\ \A i \in 1..Len(call.arg.items) :
          HasEvents(call.arg.items[i]) /\ "log" \in DOMAIN call.arg.items[i].kv
    /\ call.arg.items[1] # call.arg.items[2]
    /\ call.ret.t = "list"

====
